---- MODULE Spec2Model ----
(***************************************************************************)
(* redstonesim: the tick-diff simulation of src/src/lib.rs as a state      *)
(* machine.  One behaviour is one call of simulate(request); the inner     *)
(* loop over the dirty HashSet is one step per visited position, in any    *)
(* order, because a HashSet's iteration order is not fixed.                *)
(***************************************************************************)
EXTENDS Integers, Sequences, FiniteSets, TLC

(***************************************************************************)
(* Bounds of the model                                                     *)
(***************************************************************************)
\* largest tick budget of a request
MaxTicks == 4
\* largest initial ticks_remaining of a Button or Repeater
MaxTimer == 2
\* largest configured Repeater delay
MaxDelay == 4
\* largest initial Dust power / Comparator output (u8 admits more than 15)
MaxPower == 16
\* longest straight wire of the line worlds
LineLen == 16
\* the line worlds also hold every wire of at most this length
ShortLine == 3
\* largest coordinate, either way, of a block given to connections_impl
MaxCoord == 1

(***************************************************************************)
(* State of one call of simulate                                           *)
(***************************************************************************)
VARIABLES
    request,     \* the SimRequest of the call
    world,       \* HashMap<Pos, BlockKind>
    diffs,       \* Vec<TickDiff>
    dirty,       \* HashSet<Pos> evaluated on the current tick
    tick,        \* the loop variable of `for tick in 1..=request.ticks`
    snapshot,    \* world.clone() taken at the head of the tick
    changes,     \* Vec<BlockChange> of the current tick
    next_dirty,  \* HashSet<Pos> collected for the following tick
    todo,        \* positions of dirty.iter() not yet yielded
    pc,          \* "loop", "visit", "done" or "panicked"
    terminated,  \* "none" until the call returns, then the Termination
    prev,        \* what an earlier call on the same world returned
    connections  \* the PlacedBlock of connections_impl and its reply, if any

(***************************************************************************)
(* Direction                                                               *)
(***************************************************************************)
Direction == {"north", "east", "south", "west", "up", "down"}

offset(d) ==
    CASE d = "east"  -> <<1, 0, 0>>
      [] d = "west"  -> <<-1, 0, 0>>
      [] d = "up"    -> <<0, 1, 0>>
      [] d = "down"  -> <<0, -1, 0>>
      [] d = "south" -> <<0, 0, 1>>
      [] d = "north" -> <<0, 0, -1>>

opposite(d) ==
    CASE d = "east"  -> "west"
      [] d = "west"  -> "east"
      [] d = "up"    -> "down"
      [] d = "down"  -> "up"
      [] d = "south" -> "north"
      [] d = "north" -> "south"

all == <<"east", "west", "up", "down", "south", "north">>

\* `let (dx, dy, dz) = d.offset()` of every direction
Offsets == [d \in Direction |-> offset(d)]

\* the range of an i32 coordinate
I32Max == 2147483647

I32Min == -I32Max - 1

\* x + dx of two i32 in a build without overflow checks: the sum wraps
wrapping_add(x, dx) ==
    IF dx = 0 THEN x
    ELSE IF x = I32Max /\ dx = 1 THEN I32Min
    ELSE IF x = I32Min /\ dx = -1 THEN I32Max
    ELSE x + dx

\* x + dx of two i32 in a build with overflow checks panics
add_overflows(x, dx) ==
    \/ dx = 1 /\ x = I32Max
    \/ dx = -1 /\ x = I32Min

\* Pos { x: pos.x + dx, y: pos.y + dy, z: pos.z + dz }
Shift(pos, d) ==
    LET o == Offsets[d]
    IN  <<wrapping_add(pos[1], o[1]), wrapping_add(pos[2], o[2]),
          wrapping_add(pos[3], o[3])>>

\* one of the three sums of Shift(pos, d) overflows
Overflows(pos, d) ==
    LET o == Offsets[d]
    IN  \E i \in 1..3 : add_overflows(pos[i], o[i])

\* the direction of all() leading from `from` to `to` (the offsets differ,
\* so at most one does); "panic" when the two positions are not unit-adjacent
dir_from_to(from, to) ==
    IF \E i \in 1..Len(all) : Shift(from, all[i]) = to
    THEN all[CHOOSE i \in 1..Len(all) : Shift(from, all[i]) = to]
    ELSE "panic"

\* line 81 for one direction: a sum overflows before the && chain has
\* failed (a later sum is taken only if the comparisons before it held)
EvalOverflows(from, to, d) ==
    LET o == Offsets[d]
    IN  \/ add_overflows(from[1], o[1])
        \/ /\ from[1] + o[1] = to[1]
           /\ \/ add_overflows(from[2], o[2])
              \/ /\ from[2] + o[2] = to[2]
                 /\ add_overflows(from[3], o[3])

\* dir_from_to(from, to) overflows at a direction it tries before it returns
DirOverflows(from, to) ==
    \E i \in 1..Len(all) :
        /\ EvalOverflows(from, to, all[i])
        /\ \A j \in 1..(i - 1) : Shift(from, all[j]) # to

Range(s) == {s[i] : i \in 1..Len(s)}

(***************************************************************************)
(* Connectable for BlockKind                                               *)
(***************************************************************************)
Neighbours(pos) == [i \in 1..Len(all) |-> Shift(pos, all[i])]

input_positions(block, pos) ==
    CASE block.type \in {"lever", "button"} -> <<>>
      [] block.type \in {"dust", "lamp", "piston", "hopper", "comparator"} ->
            Neighbours(pos)
      [] block.type = "repeater" -> <<Shift(pos, opposite(block.facing))>>
      [] block.type = "torch" -> <<Shift(pos, block.facing)>>

SelectSeqNot(s, x) ==
    LET F[i \in 0..Len(s)] ==
            IF i = 0 THEN <<>>
            ELSE IF s[i] = x THEN F[i - 1] ELSE Append(F[i - 1], s[i])
    IN  F[Len(s)]

\* output_positions with the Torch sending to all six neighbours
output_positionsTorchAll(block, pos) ==
    CASE block.type \in {"lever", "button", "repeater", "comparator"} ->
            <<Shift(pos, block.facing)>>
      [] block.type \in {"torch", "dust"} -> Neighbours(pos)
      [] block.type \in {"lamp", "piston", "hopper"} -> <<>>

output_positions(block, pos) ==
    CASE block.type \in {"lever", "button", "repeater", "comparator"} ->
            <<Shift(pos, block.facing)>>
      [] block.type = "torch" ->
            [i \in 1..(Len(all) - 1) |->
                Shift(pos, SelectSeqNot(all, block.facing)[i])]
      [] block.type = "dust" -> Neighbours(pos)
      [] block.type \in {"lamp", "piston", "hopper"} -> <<>>

(***************************************************************************)
(* output_towards: the power a block offers toward a direction             *)
(***************************************************************************)
output_towards(block, dir) ==
    CASE block.type = "lever" /\ block.on /\ block.facing = dir -> 15
      [] block.type = "button" /\ block.ticks_remaining > 0
            /\ block.facing = dir -> 15
      [] block.type = "repeater" /\ block.powered /\ block.facing = dir -> 15
      [] block.type = "comparator" /\ block.output > 0
            /\ block.facing = dir -> block.output
      [] block.type = "torch" /\ block.lit /\ dir # block.facing -> 15
      [] block.type = "dust" -> block.power
      [] OTHER -> 0

Max(a, b) == IF a >= b THEN a ELSE b

\* u8::saturating_sub
saturating_sub(a, b) == IF a >= b THEN a - b ELSE 0

\* the maximum of a finite set of naturals, 0 for the empty set
MaxOf(S) == IF S = {} THEN 0 ELSE CHOOSE m \in S : \A n \in S : n <= m

(***************************************************************************)
(* The per-variant rules of simulate's match.  Each takes the live block,  *)
(* its position and the pre-tick snap, and yields the block as         *)
(* written back, with the flags `changed`, `mark_out` and whether the      *)
(* block inserted its own position into next_dirty.                        *)
(***************************************************************************)
Outcome(b, c, m, s) ==
    [block |-> b, changed |-> c, mark_out |-> m, self_dirty |-> s]

\* the neighbours a rule finds in the snapshot: `snapshot.get(&n)` is Some
Present(block, pos, snap) ==
    {n \in Range(input_positions(block, pos)) : n \in DOMAIN snap}

\* output_towards(nb, dir_from_to(n, pos)) of one present neighbour
Offered(n, pos, snap) == output_towards(snap[n], dir_from_to(n, pos))

\* `powered`: some present neighbour offers power toward pos
AnyPowered(block, pos, snap) ==
    \E n \in Present(block, pos, snap) : Offered(n, pos, snap) > 0

\* ButtonArm that never sets mark_out
ButtonArmQuiet(block, pos, snap) ==
    IF block.ticks_remaining > 0
    THEN LET tr == block.ticks_remaining - 1
         IN  Outcome([block EXCEPT !.ticks_remaining = tr], TRUE, FALSE,
                     tr > 0)
    ELSE Outcome(block, FALSE, FALSE, FALSE)

\* ButtonArm that never puts its own position into next_dirty
ButtonArmOnce(block, pos, snap) ==
    IF block.ticks_remaining > 0
    THEN LET tr == block.ticks_remaining - 1
         IN  Outcome([block EXCEPT !.ticks_remaining = tr], TRUE,
                     tr = 0, FALSE)
    ELSE Outcome(block, FALSE, FALSE, FALSE)

ButtonArm(block, pos, snap) ==
    IF block.ticks_remaining > 0
    THEN LET prev_output == 15
             tr == block.ticks_remaining - 1
             new_output == IF tr > 0 THEN 15 ELSE 0
         IN  Outcome([block EXCEPT !.ticks_remaining = tr], TRUE,
                     prev_output # new_output, tr > 0)
    ELSE Outcome(block, FALSE, FALSE, FALSE)

\* RepeaterInput reading the strongest offer of all six neighbours
RepeaterInputAnySide(block, pos, snap) ==
    MaxOf({output_towards(snap[n], dir_from_to(n, pos)) :
              n \in {m \in Range(Neighbours(pos)) : m \in DOMAIN snap}})

\* the power read from the single back neighbour
RepeaterInput(block, pos, snap) ==
    LET n == Shift(pos, opposite(block.facing))
    IN  IF n \in DOMAIN snap
        THEN output_towards(snap[n], block.facing)
        ELSE 0

\* RepeaterArm that keeps its countdown when the input is gone
RepeaterArmLatching(block, pos, snap) ==
    LET input == RepeaterInput(block, pos, snap)
        prev_output == IF block.powered THEN 15 ELSE 0
        tr1 == IF input > 0 /\ ~block.powered /\ block.ticks_remaining = 0
               THEN block.delay ELSE block.ticks_remaining
        pw1 == IF input > 0 THEN block.powered ELSE FALSE
        tr2 == IF tr1 > 0 THEN tr1 - 1 ELSE tr1
        pw2 == IF tr1 > 0 /\ tr2 = 0 /\ input > 0 THEN TRUE ELSE pw1
        new_output == IF pw2 THEN 15 ELSE 0
    IN  Outcome([block EXCEPT !.ticks_remaining = tr2, !.powered = pw2],
                prev_output # new_output \/ tr2 # 0,
                prev_output # new_output,
                tr2 > 0)

\* RepeaterArm that starts a countdown without decrementing it in the same
\* tick
RepeaterArmLate(block, pos, snap) ==
    LET input == RepeaterInput(block, pos, snap)
        prev_output == IF block.powered THEN 15 ELSE 0
        starts == input > 0 /\ ~block.powered /\ block.ticks_remaining = 0
        tr1 == IF input > 0
               THEN IF starts THEN block.delay ELSE block.ticks_remaining
               ELSE 0
        pw1 == IF input > 0 THEN block.powered ELSE FALSE
        tr2 == IF tr1 > 0 /\ ~starts THEN tr1 - 1 ELSE tr1
        pw2 == IF tr1 > 0 /\ tr2 = 0 /\ input > 0 THEN TRUE ELSE pw1
        new_output == IF pw2 THEN 15 ELSE 0
    IN  Outcome([block EXCEPT !.ticks_remaining = tr2, !.powered = pw2],
                prev_output # new_output \/ tr2 # 0,
                prev_output # new_output,
                tr2 > 0)

\* RepeaterArm that reports a change only when its output toggles
RepeaterArmSilent(block, pos, snap) ==
    LET input == RepeaterInput(block, pos, snap)
        prev_output == IF block.powered THEN 15 ELSE 0
        tr1 == IF input > 0
               THEN IF ~block.powered /\ block.ticks_remaining = 0
                    THEN block.delay ELSE block.ticks_remaining
               ELSE 0
        pw1 == IF input > 0 THEN block.powered ELSE FALSE
        tr2 == IF tr1 > 0 THEN tr1 - 1 ELSE tr1
        pw2 == IF tr1 > 0 /\ tr2 = 0 /\ input > 0 THEN TRUE ELSE pw1
        new_output == IF pw2 THEN 15 ELSE 0
    IN  Outcome([block EXCEPT !.ticks_remaining = tr2, !.powered = pw2],
                prev_output # new_output,
                prev_output # new_output,
                tr2 > 0)

RepeaterArm(block, pos, snap) ==
    LET input == RepeaterInput(block, pos, snap)
        prev_output == IF block.powered THEN 15 ELSE 0
        \* lines 328-335
        tr1 == IF input > 0
               THEN IF ~block.powered /\ block.ticks_remaining = 0
                    THEN block.delay ELSE block.ticks_remaining
               ELSE 0
        pw1 == IF input > 0 THEN block.powered ELSE FALSE
        \* lines 337-342
        tr2 == IF tr1 > 0 THEN tr1 - 1 ELSE tr1
        pw2 == IF tr1 > 0 /\ tr2 = 0 /\ input > 0 THEN TRUE ELSE pw1
        new_output == IF pw2 THEN 15 ELSE 0
    IN  Outcome([block EXCEPT !.ticks_remaining = tr2, !.powered = pw2],
                prev_output # new_output \/ tr2 # 0,
                prev_output # new_output,
                tr2 > 0)

ComparatorArm(block, pos, snap) ==
    LET new_out == MaxOf({Offered(n, pos, snap) :
                            n \in Present(block, pos, snap)})
    IN  IF block.output # new_out
        THEN Outcome([block EXCEPT !.output = new_out], TRUE, TRUE, FALSE)
        ELSE Outcome(block, FALSE, FALSE, FALSE)

\* DustCandidate without the loss of one level per wire hop
DustCandidateNoLoss(n, pos, snap) ==
    IF snap[n].type = "dust"
    THEN snap[n].power
    ELSE output_towards(snap[n], dir_from_to(n, pos))

\* what one present neighbour contributes to a Dust's new power
DustCandidate(n, pos, snap) ==
    IF snap[n].type = "dust"
    THEN saturating_sub(snap[n].power, 1)
    ELSE Offered(n, pos, snap)

\* DustArm reading its neighbours from the live world, not the snap
DustArmLive(block, pos, snap) ==
    LET new_power == MaxOf({DustCandidate(n, pos, world) :
                              n \in Present(block, pos, world)})
    IN  IF block.power # new_power
        THEN Outcome([block EXCEPT !.power = new_power], TRUE, TRUE, FALSE)
        ELSE Outcome(block, FALSE, FALSE, FALSE)

\* DustArm that changes its power without setting mark_out
DustArmMute(block, pos, snap) ==
    LET new_power == MaxOf({DustCandidate(n, pos, snap) :
                              n \in Present(block, pos, snap)})
    IN  IF block.power # new_power
        THEN Outcome([block EXCEPT !.power = new_power], TRUE, FALSE, FALSE)
        ELSE Outcome(block, FALSE, FALSE, FALSE)

DustArm(block, pos, snap) ==
    LET new_power == MaxOf({DustCandidate(n, pos, snap) :
                              n \in Present(block, pos, snap)})
    IN  IF block.power # new_power
        THEN Outcome([block EXCEPT !.power = new_power], TRUE, TRUE, FALSE)
        ELSE Outcome(block, FALSE, FALSE, FALSE)

\* LampArm reading its neighbours from the live world, not the snap
LampArmLive(block, pos, snap) ==
    LET powered == AnyPowered(block, pos, world)
    IN  IF block.on # powered
        THEN Outcome([block EXCEPT !.on = powered], TRUE, FALSE, FALSE)
        ELSE Outcome(block, FALSE, FALSE, FALSE)

LampArm(block, pos, snap) ==
    LET powered == AnyPowered(block, pos, snap)
    IN  IF block.on # powered
        THEN Outcome([block EXCEPT !.on = powered], TRUE, FALSE, FALSE)
        ELSE Outcome(block, FALSE, FALSE, FALSE)

\* TorchInput asking the block in front for its output toward `facing`
TorchInputForward(block, pos, snap) ==
    LET n == Shift(pos, block.facing)
    IN  IF n \in DOMAIN snap
        THEN output_towards(snap[n], block.facing)
        ELSE 0

\* the power the block in front of a Torch offers toward the torch
TorchInput(block, pos, snap) ==
    LET n == Shift(pos, block.facing)
    IN  IF n \in DOMAIN snap
        THEN output_towards(snap[n], opposite(block.facing))
        ELSE 0

TorchArm(block, pos, snap) ==
    LET powered == TorchInput(block, pos, snap) > 0
        new_lit == ~powered
    IN  IF block.lit # new_lit
        THEN Outcome([block EXCEPT !.lit = new_lit], TRUE, TRUE, FALSE)
        ELSE Outcome(block, FALSE, FALSE, FALSE)

PistonArm(block, pos, snap) ==
    LET powered == AnyPowered(block, pos, snap)
    IN  IF block.extended # powered
        THEN Outcome([block EXCEPT !.extended = powered], TRUE, TRUE, FALSE)
        ELSE Outcome(block, FALSE, FALSE, FALSE)

HopperArm(block, pos, snap) ==
    LET powered == AnyPowered(block, pos, snap)
        new_enabled == ~powered
    IN  IF block.enabled # new_enabled
        THEN Outcome([block EXCEPT !.enabled = new_enabled], TRUE, FALSE, FALSE)
        ELSE Outcome(block, FALSE, FALSE, FALSE)

\* Rule with an arm for the Lever that switches it off
RuleSwitchingLever(block, pos, snap) ==
    CASE block.type = "button"     -> ButtonArm(block, pos, snap)
      [] block.type = "repeater"   -> RepeaterArm(block, pos, snap)
      [] block.type = "comparator" -> ComparatorArm(block, pos, snap)
      [] block.type = "dust"       -> DustArm(block, pos, snap)
      [] block.type = "lamp"       -> LampArm(block, pos, snap)
      [] block.type = "torch"      -> TorchArm(block, pos, snap)
      [] block.type = "piston"     -> PistonArm(block, pos, snap)
      [] block.type = "hopper"     -> HopperArm(block, pos, snap)
      [] OTHER ->
            IF block.on
            THEN Outcome([block EXCEPT !.on = FALSE], TRUE, TRUE, FALSE)
            ELSE Outcome(block, FALSE, FALSE, FALSE)

\* the match of lines 302-458
Rule(block, pos, snap) ==
    CASE block.type = "button"     -> ButtonArm(block, pos, snap)
      [] block.type = "repeater"   -> RepeaterArm(block, pos, snap)
      [] block.type = "comparator" -> ComparatorArm(block, pos, snap)
      [] block.type = "dust"       -> DustArm(block, pos, snap)
      [] block.type = "lamp"       -> LampArm(block, pos, snap)
      [] block.type = "torch"      -> TorchArm(block, pos, snap)
      [] block.type = "piston"     -> PistonArm(block, pos, snap)
      [] block.type = "hopper"     -> HopperArm(block, pos, snap)
      [] OTHER                     -> Outcome(block, FALSE, FALSE, FALSE)

\* a rule that scans input_positions calls dir_from_to on each present
\* neighbour; the call panics on a pair that is not adjacent
ScansNeighbours(block) ==
    block.type \in {"comparator", "dust", "lamp", "piston", "hopper"}

Panics(block, pos, snap) ==
    /\ ScansNeighbours(block)
    /\ \E n \in Present(block, pos, snap) : dir_from_to(n, pos) = "panic"

\* the present neighbours an arm calls dir_from_to on: all of them in the
\* Comparator and Dust arms, those up to the first that offers power (the
\* `break`) in the Lamp, Piston and Hopper arms
Scanned(block, pos, snap) ==
    LET ins == input_positions(block, pos)
        Powers(i) == ins[i] \in DOMAIN snap /\ Offered(ins[i], pos, snap) > 0
    IN  {ins[i] : i \in {k \in 1..Len(ins) :
            /\ ins[k] \in DOMAIN snap
            /\ block.type \in {"lamp", "piston", "hopper"}
                  => \A j \in 1..(k - 1) : ~Powers(j)}}

\* a coordinate of pos is the least or the largest i32 or next to it: a sum
\* of the block's or of a neighbour's coordinates with an offset overflows
\* nowhere else
NearEdge(pos) ==
    \E i \in 1..3 : pos[i] >= I32Max - 1 \/ pos[i] <= I32Min + 1

\* a sum of i32 coordinates overflows while the block at pos is evaluated:
\* in input_positions or the arm's own offset, in dir_from_to, or in the
\* output_positions that mark_outputs walks
ArmOverflows(block, pos, snap) ==
    /\ NearEdge(pos)
    /\ CASE ScansNeighbours(block) ->
               \/ \E d \in Direction : Overflows(pos, d)
               \/ \E n \in Scanned(block, pos, snap) : DirOverflows(n, pos)
         [] block.type = "button" ->
               /\ ButtonArm(block, pos, snap).mark_out
               /\ Overflows(pos, block.facing)
         [] block.type = "repeater" ->
               \/ Overflows(pos, opposite(block.facing))
               \/ /\ RepeaterArm(block, pos, snap).mark_out
                  /\ Overflows(pos, block.facing)
         [] block.type = "torch" ->
               \/ Overflows(pos, block.facing)
               \/ /\ TorchArm(block, pos, snap).mark_out
                  /\ \E d \in Direction \ {block.facing} : Overflows(pos, d)
         [] OTHER -> FALSE

\* mark_outputs: the positions inserted into the set
mark_outputs(block, pos) == Range(output_positions(block, pos))

\* world.values().any(..) of lines 472-476
timers_active(w) ==
    \E p \in DOMAIN w :
        /\ w[p].type \in {"button", "repeater"}
        /\ w[p].ticks_remaining > 0

(***************************************************************************)
(* BlockKind values                                                        *)
(***************************************************************************)
Lever(on, facing) == [type |-> "lever", on |-> on, facing |-> facing]
Button(tr, facing) ==
    [type |-> "button", ticks_remaining |-> tr, facing |-> facing]
Dust(power) == [type |-> "dust", power |-> power]
Lamp(on) == [type |-> "lamp", on |-> on]
Repeater(delay, tr, powered, facing) ==
    [type |-> "repeater", delay |-> delay, ticks_remaining |-> tr,
     powered |-> powered, facing |-> facing]
Comparator(output, facing) ==
    [type |-> "comparator", output |-> output, facing |-> facing]
Torch(lit, facing) == [type |-> "torch", lit |-> lit, facing |-> facing]
Piston(extended, facing) ==
    [type |-> "piston", extended |-> extended, facing |-> facing]
Hopper(enabled, facing) ==
    [type |-> "hopper", enabled |-> enabled, facing |-> facing]

\* no block at a position of a placement
Air == [type |-> "air"]

(***************************************************************************)
(* The requests the model runs simulate on                                 *)
(***************************************************************************)
\* three cells in a row along x: a source, a relay and a sink
Cells == {<<0, 0, 0>>, <<1, 0, 0>>, <<2, 0, 0>>}

\* what the cell at x = 0 may hold
SourceBlocks ==
    {Air, Lever(TRUE, "east"), Lever(FALSE, "east"),
     Button(MaxTimer, "east"),
     Dust(MaxPower),
     Comparator(MaxPower, "east"),
     Torch(TRUE, "west")}

\* what the cell at x = 1 may hold
RelayBlocks ==
    {Air, Dust(0), Dust(MaxPower),
     Comparator(0, "east"),
     Torch(TRUE, "west")}
    \cup {Repeater(d, 0, FALSE, "east") : d \in 1..MaxDelay}
    \cup {Repeater(1, MaxTimer, pw, "east") : pw \in BOOLEAN}

\* what the cell at x = 2 may hold
SinkBlocks ==
    {Air, Lamp(FALSE), Lamp(TRUE),
     Piston(FALSE, "east"),
     Hopper(TRUE, "east"),
     Dust(0),
     Torch(TRUE, "west"),
     Lever(TRUE, "west")}

\* World::into_map of a placement: the cells that hold a block
into_map(placement) ==
    [p \in {c \in DOMAIN placement : placement[c] # Air} |-> placement[p]]

GeneralWorlds ==
    {into_map([p \in Cells |->
            CASE p[1] = 0 -> a
              [] p[1] = 1 -> b
              [] OTHER    -> c]) :
        a \in SourceBlocks, b \in RelayBlocks, c \in SinkBlocks}

\* tests::lever_to_lamp_one_tick
LeverLampWorld ==
    into_map([p \in Cells |->
        CASE p = <<0, 0, 0>> -> Lever(TRUE, "east")
          [] p = <<1, 0, 0>> -> Dust(0)
          [] p = <<2, 0, 0>> -> Lamp(FALSE)])

\* tests::torch_turns_off_when_powered
TorchWorld ==
    into_map([p \in {<<0, 0, 0>>, <<1, 0, 0>>} |->
        IF p = <<0, 0, 0>> THEN Lever(TRUE, "east") ELSE Torch(TRUE, "west")])

\* tests::repeater_requires_back_input
SideLeverWorld ==
    into_map([p \in {<<1, 0, 1>>, <<1, 0, 0>>, <<2, 0, 0>>, <<3, 0, 0>>} |->
        CASE p = <<1, 0, 1>> -> Lever(TRUE, "north")
          [] p = <<1, 0, 0>> -> Repeater(1, 0, FALSE, "east")
          [] p = <<2, 0, 0>> -> Dust(0)
          [] p = <<3, 0, 0>> -> Lamp(FALSE)])

\* a lever feeding the back of a 1-tick repeater with a lamp in front
BackLeverWorld ==
    into_map([p \in Cells |->
        CASE p = <<0, 0, 0>> -> Lever(TRUE, "east")
          [] p = <<1, 0, 0>> -> Repeater(1, 0, FALSE, "east")
          [] p = <<2, 0, 0>> -> Lamp(FALSE)])

\* a lever and a wire at the largest x an i32 holds
EdgeWorld ==
    into_map([p \in {<<I32Max - 1, 0, 0>>, <<I32Max, 0, 0>>} |->
        IF p[1] = I32Max THEN Dust(0) ELSE Lever(TRUE, "east")])

SimRequest(ticks, w, early_exit) ==
    [ticks |-> ticks, world |-> w, early_exit |-> early_exit]

Requests ==
    {SimRequest(t, w, e) :
        t \in 0..MaxTicks,
        w \in GeneralWorlds \cup {SideLeverWorld, EdgeWorld},
        e \in BOOLEAN}
    \cup {SimRequest(5, LeverLampWorld, TRUE)}

\* a lever at the origin driving a straight wire of n unpowered Dust
LineWorld(n) ==
    [p \in {<<x, 0, 0>> : x \in 0..n} |->
        IF p[1] = 0 THEN Lever(TRUE, "east") ELSE Dust(0)]

\* the short lines with every budget up to two ticks past their length, the
\* long one with the budget that lets it settle
LineRequests ==
    {SimRequest(t, LineWorld(n), TRUE) : n \in 1..ShortLine, t \in 0..(ShortLine + 2)}
    \cup {SimRequest(LineLen + 2, LineWorld(LineLen), TRUE)}

\* the requests a caller repeats: general worlds of at most two blocks
RerunRequests ==
    {r \in Requests :
        r.world \in GeneralWorlds /\ Cardinality(DOMAIN r.world) <= 2}

\* the directions the Button of a Button world faces: toward the relay cell
\* and away from it
ButtonFacings == {"east", "west"}

\* a Button of every countdown, none included, at the source cell
ButtonWorlds ==
    {into_map([p \in Cells |->
            CASE p[1] = 0 -> Button(n, f)
              [] p[1] = 1 -> b
              [] OTHER    -> c]) :
        n \in 0..MaxTimer, f \in ButtonFacings,
        b \in RelayBlocks, c \in SinkBlocks}

\* the requests of Requests whose world holds a Repeater
RepeaterRequests ==
    {r \in Requests :
        \E p \in DOMAIN r.world : r.world[p].type = "repeater"}

ButtonRequests ==
    {SimRequest(t, w, e) :
        t \in 0..MaxTicks, w \in ButtonWorlds, e \in BOOLEAN}

\* the largest value of a u8 field
U8Max == 255

\* the derived Deserialize of BlockKind: the tag names a variant and every
\* field holds a value of its Rust type (u8, bool or Direction), no more
Deserializes(block) ==
    CASE block.type = "lever" ->
            block.on \in BOOLEAN /\ block.facing \in Direction
      [] block.type = "button" ->
            block.ticks_remaining \in 0..U8Max /\ block.facing \in Direction
      [] block.type = "dust" -> block.power \in 0..U8Max
      [] block.type = "lamp" -> block.on \in BOOLEAN
      [] block.type = "repeater" ->
            /\ block.delay \in 0..U8Max
            /\ block.ticks_remaining \in 0..U8Max
            /\ block.powered \in BOOLEAN
            /\ block.facing \in Direction
      [] block.type = "comparator" ->
            block.output \in 0..U8Max /\ block.facing \in Direction
      [] block.type = "torch" ->
            block.lit \in BOOLEAN /\ block.facing \in Direction
      [] block.type = "piston" ->
            block.extended \in BOOLEAN /\ block.facing \in Direction
      [] block.type = "hopper" ->
            block.enabled \in BOOLEAN /\ block.facing \in Direction
      [] OTHER -> FALSE

\* serde_json::from_str::<SimRequest> returns Ok: simulate_impl hands the
\* request to simulate, and returns the error without calling it otherwise
from_str(r) ==
    /\ r.ticks \in Nat
    /\ r.early_exit \in BOOLEAN
    /\ \A p \in DOMAIN r.world : Deserializes(r.world[p])

vars == <<request, world, diffs, dirty, tick, snapshot, changes, next_dirty,
          todo, pc, terminated, prev,
                connections>>

SimResponse(d, t) == [diffs |-> d, terminated |-> t]

\* no earlier call was made
NoCall == [response |-> SimResponse(<<>>, "none"), ticks |-> 0, tick |-> 0]

\* connections_impl was not called
NoConnections == [block |-> Air, pos |-> <<0, 0, 0>>, reply |-> <<>>]

\* lines 268-291, entered with a request the decoder has accepted
InitWith(R) ==
    /\ request \in {r \in R : from_str(r)}
    /\ world = request.world
    /\ diffs = <<>>
    /\ dirty = DOMAIN request.world
    /\ tick = 0
    /\ snapshot = request.world
    /\ changes = <<>>
    /\ next_dirty = {}
    /\ todo = {}
    /\ pc = "loop"
    /\ terminated = "none"
    /\ prev = NoCall
    /\ connections = NoConnections

Init == InitWith(Requests)

InitLine == InitWith(LineRequests)

InitRerun == InitWith(RerunRequests)

InitButton == InitWith(ButtonRequests)

InitRepeater == InitWith(RepeaterRequests)

\* lines 293-296: the loop takes its next tick.  A dirty position that holds
\* no block fails `if let Some(block)` and its iteration does nothing, so
\* only the positions that hold a block are left to visit.
BeginTick ==
    /\ pc = "loop"
    /\ tick < request.ticks
    /\ tick' = tick + 1
    /\ changes' = <<>>
    /\ snapshot' = world
    /\ next_dirty' = {}
    /\ todo' = {p \in dirty : p \in DOMAIN world}
    /\ pc' = "visit"
    /\ UNCHANGED <<request, world, diffs, dirty, terminated, prev,
                connections>>

BlockChange(pos, kind) == [pos |-> pos, kind |-> kind]

\* lines 298-467: one iteration of `for pos in dirty.iter()`.  It panics
\* where dir_from_to does; where a sum of coordinates overflows it panics in
\* a build with overflow checks and goes on with the wrapped sum in one
\* without.
Visit(pos) ==
    /\ pc = "visit"
    /\ pos \in todo
    /\ todo' = todo \ {pos}
    /\ IF Panics(world[pos], pos, snapshot)
       THEN /\ pc' = "panicked"
            /\ UNCHANGED <<world, changes, next_dirty>>
       ELSE \/ /\ ArmOverflows(world[pos], pos, snapshot)
               /\ pc' = "panicked"
               /\ UNCHANGED <<world, changes, next_dirty>>
            \/ \E r \in {Rule(world[pos], pos, snapshot)} :
                /\ world' = [world EXCEPT ![pos] = r.block]
                /\ changes' = IF r.changed
                              THEN Append(changes, BlockChange(pos, r.block))
                              ELSE changes
                /\ next_dirty' =
                      next_dirty
                      \cup (IF r.self_dirty THEN {pos} ELSE {})
                      \cup (IF r.mark_out
                            THEN mark_outputs(r.block, pos) ELSE {})
                /\ pc' = pc
    /\ UNCHANGED <<request, diffs, dirty, tick, snapshot, terminated, prev,
                connections>>

TickDiff(t, c) == [tick |-> t, changes |-> c]

\* EndTick pushing a TickDiff for every tick, an empty one included
EndTickRecordingAll ==
    /\ pc = "visit"
    /\ todo = {}
    /\ IF changes = <<>> /\ request.early_exit /\ ~timers_active(world)
       THEN /\ terminated' = "stable"
            /\ pc' = "done"
            /\ UNCHANGED <<diffs, dirty>>
       ELSE /\ diffs' = Append(diffs, [tick |-> tick, changes |-> changes])
            /\ dirty' = next_dirty
            /\ pc' = "loop"
            /\ UNCHANGED terminated
    /\ UNCHANGED <<request, world, tick, snapshot, changes, next_dirty, todo,
                   prev, connections>>

\* EndTick with the Stable test taken before the test of the change list
EndTickEager ==
    /\ pc = "visit"
    /\ todo = {}
    /\ IF request.early_exit /\ ~timers_active(world)
       THEN /\ terminated' = "stable"
            /\ pc' = "done"
            /\ UNCHANGED <<diffs, dirty>>
       ELSE /\ diffs' = IF changes # <<>>
                        THEN Append(diffs, [tick |-> tick, changes |-> changes])
                        ELSE diffs
            /\ dirty' = next_dirty
            /\ pc' = "loop"
            /\ UNCHANGED terminated
    /\ UNCHANGED <<request, world, tick, snapshot, changes, next_dirty, todo,
                   prev, connections>>

\* lines 469-485: the tick's changes are recorded, or the call returns
\* Stable, or the loop goes on with the next dirty set
EndTick ==
    /\ pc = "visit"
    /\ todo = {}
    /\ IF changes # <<>>
       THEN /\ diffs' = Append(diffs, TickDiff(tick, changes))
            /\ dirty' = next_dirty
            /\ pc' = "loop"
            /\ UNCHANGED terminated
       ELSE IF request.early_exit /\ ~timers_active(world)
       THEN /\ terminated' = "stable"
            /\ pc' = "done"
            /\ UNCHANGED <<diffs, dirty>>
       ELSE /\ dirty' = next_dirty
            /\ pc' = "loop"
            /\ UNCHANGED <<diffs, terminated>>
    /\ UNCHANGED <<request, world, tick, snapshot, changes, next_dirty, todo,
                   prev, connections>>

\* Finish returning while ticks of the budget are still left
FinishEarly ==
    /\ pc = "loop"
    /\ tick <= request.ticks
    /\ terminated' = "max_ticks_reached"
    /\ pc' = "done"
    /\ UNCHANGED <<request, world, diffs, dirty, tick, snapshot, changes,
                   next_dirty, todo, prev,
                   connections>>

\* lines 488-491: the tick budget is used up
Finish ==
    /\ pc = "loop"
    /\ tick = request.ticks
    /\ terminated' = "max_ticks_reached"
    /\ pc' = "done"
    /\ UNCHANGED <<request, world, diffs, dirty, tick, snapshot, changes,
                   next_dirty, todo, prev,
                   connections>>

\* the caller keeps the response and calls simulate once more on the same
\* initial world with a tick budget of its choice (simulate_impl decodes a
\* fresh request and runs lines 268-291 again)
CallAgain(ticks) ==
    /\ pc = "done"
    /\ prev = NoCall
    /\ prev' = [response |-> SimResponse(diffs, terminated),
                ticks |-> request.ticks, tick |-> tick]
    /\ request' = [request EXCEPT !.ticks = ticks]
    /\ world' = request.world
    /\ diffs' = <<>>
    /\ dirty' = DOMAIN request.world
    /\ tick' = 0
    /\ snapshot' = request.world
    /\ changes' = <<>>
    /\ next_dirty' = {}
    /\ todo' = {}
    /\ pc' = "loop"
    /\ terminated' = "none"
    /\ UNCHANGED connections

Next ==
    \/ BeginTick
    \/ \E pos \in todo : Visit(pos)
    \/ EndTick
    \/ Finish

Spec == Init /\ [][Next]_vars

SpecLine == InitLine /\ [][Next]_vars

NextRerun ==
    \/ Next
    \/ \E ticks \in 0..MaxTicks : CallAgain(ticks)

SpecRerun == InitRerun /\ [][NextRerun]_vars

SpecButton == InitButton /\ [][Next]_vars

SpecRepeater == InitRepeater /\ [][Next]_vars

\* every state of every variant within the bounds of the model
BlockKinds ==
    {Lever(on, f) : on \in BOOLEAN, f \in Direction}
    \cup {Button(t, f) : t \in 0..MaxTimer, f \in Direction}
    \cup {Dust(pw) : pw \in 0..MaxPower}
    \cup {Lamp(on) : on \in BOOLEAN}
    \cup {Repeater(d, t, pw, f) :
            d \in 1..MaxDelay, t \in 0..MaxTimer, pw \in BOOLEAN,
            f \in Direction}
    \cup {Comparator(o, f) : o \in 0..MaxPower, f \in Direction}
    \cup {Torch(lit, f) : lit \in BOOLEAN, f \in Direction}
    \cup {Piston(e, f) : e \in BOOLEAN, f \in Direction}
    \cup {Hopper(e, f) : e \in BOOLEAN, f \in Direction}

Positions ==
    {<<x, y, z>> : x \in -MaxCoord..MaxCoord, y \in -MaxCoord..MaxCoord,
                   z \in -MaxCoord..MaxCoord}

\* the PlacedBlock values the decoder of connections_impl accepts
PlacedBlocks ==
    {[block |-> b, pos |-> p, reply |-> <<>>] :
        b \in {k \in BlockKinds : Deserializes(k)}, p \in Positions}

\* a call of connections_impl has decoded its block; simulate is not called
InitConnections ==
    /\ connections \in PlacedBlocks
    /\ request = SimRequest(0, <<>>, TRUE)
    /\ world = <<>>
    /\ diffs = <<>>
    /\ dirty = {}
    /\ tick = 0
    /\ snapshot = <<>>
    /\ changes = <<>>
    /\ next_dirty = {}
    /\ todo = {}
    /\ pc = "connections"
    /\ terminated = "none"
    /\ prev = NoCall

\* py.rs lines 25-27: the inputs and the outputs of the block
connections_impl ==
    /\ pc = "connections"
    /\ connections' =
          [connections EXCEPT !.reply =
              <<[inputs  |-> input_positions(connections.block, connections.pos),
                 outputs |-> output_positions(connections.block, connections.pos)]>>]
    /\ pc' = "done"
    /\ UNCHANGED <<request, world, diffs, dirty, tick, snapshot, changes,
                   next_dirty, todo, terminated, prev>>

SpecConnections == InitConnections /\ [][connections_impl]_vars

(***************************************************************************)
(* Helpers of the claims                                                   *)
(***************************************************************************)
\* the positions the current tick has already evaluated
Visited == {p \in dirty : p \in DOMAIN world} \ todo

\* the tick's loop over the dirty set has run to its end
TickDone == pc = "visit" /\ todo = {}

\* the (position, new state) entries of a change list, order forgotten
Entries(c) == {c[i] : i \in 1..Len(c)}

\* the entries the response lists for tick t
DiffEntries(d, t) ==
    UNION {Entries(d[i].changes) : i \in {j \in 1..Len(d) : d[j].tick = t}}

(***************************************************************************)
(* C1  Determinism: a second call of simulate on the same world with the   *)
(* same tick budget and early_exit returns the same response as the first, *)
(* the order of the entries inside every change list included.             *)
(***************************************************************************)
C1_Determinism ==
    (pc = "done" /\ prev # NoCall /\ prev.ticks = request.ticks)
        => SimResponse(diffs, terminated) = prev.response

(***************************************************************************)
(* C2  No false stability: when the call has returned Stable, no Button or *)
(* Repeater of the final world has ticks_remaining > 0, the change list of *)
(* the last simulated tick is empty, and no TickDiff was recorded for that *)
(* tick.                                                                   *)
(***************************************************************************)
C2_NoFalseStability ==
    terminated = "stable" =>
        /\ \A p \in DOMAIN world :
              world[p].type \in {"button", "repeater"}
                  => world[p].ticks_remaining = 0
        /\ changes = <<>>
        /\ \A i \in 1..Len(diffs) : diffs[i].tick < tick

\* a call returns Stable after a Button of the initial world has run down
C2_Witness ==
    /\ terminated = "stable"
    /\ diffs # <<>>
    /\ \E p \in DOMAIN world :
          /\ world[p].type = "button"
          /\ request.world[p].ticks_remaining > 0

(***************************************************************************)
(* C3  Diff minimality: when a tick's loop has ended, a block is in the    *)
(* tick's change list if and only if its state differs from its state in   *)
(* the pre-tick snapshot (the t = 0 state for tick 1).                     *)
(***************************************************************************)
C3_DiffMinimality ==
    TickDone =>
        \A p \in DOMAIN world :
            (\E c \in Entries(changes) : c.pos = p) <=> world[p] # snapshot[p]

(***************************************************************************)
(* C4  Power bounds: every Dust power and Comparator output listed in a    *)
(* change list lies in 0..15.                                              *)
(***************************************************************************)
InPowerRange(kind) ==
    /\ kind.type = "dust" => kind.power \in 0..15
    /\ kind.type = "comparator" => kind.output \in 0..15

C4_PowerBounds ==
    /\ \A c \in Entries(changes) : InPowerRange(c.kind)
    /\ \A i \in 1..Len(diffs) :
          \A c \in Entries(diffs[i].changes) : InPowerRange(c.kind)

(***************************************************************************)
(* C5  Attenuation law, as the claim states it: once the call on a lever-  *)
(* driven straight wire has returned Stable, segment k (k = 1 next to the  *)
(* lever) has power max(0, 15 - k).                                        *)
(***************************************************************************)
IsLine == \E n \in 1..LineLen : request.world = LineWorld(n)

Segments == {p \in DOMAIN world : world[p].type = "dust"}

C5_AttenuationAsClaimed ==
    (IsLine /\ terminated = "stable") =>
        \A p \in Segments : world[p].power = Max(0, 15 - p[1])

(***************************************************************************)
(* C5, amended: the segment next to the lever takes the full 15, so once   *)
(* the wire is Stable segment k has power max(0, 16 - k), which is 0 from  *)
(* k = 16 on; while the signal travels, segment k holds either its initial *)
(* 0 or already that final power, and after tick t exactly the first t     *)
(* segments hold it.                                                       *)
(***************************************************************************)
C5_Attenuation ==
    IsLine =>
        /\ \A p \in Segments : world[p].power \in {0, Max(0, 16 - p[1])}
        /\ pc = "loop" =>
              \A p \in Segments :
                  world[p].power = IF p[1] <= tick THEN Max(0, 16 - p[1]) ELSE 0
        /\ terminated = "stable" =>
              \A p \in Segments : world[p].power = Max(0, 16 - p[1])
        /\ (pc = "done" /\ request.ticks > Cardinality(Segments)) =>
              terminated = "stable"

\* the longest wire has settled: its 15th segment holds 1, its 16th holds 0
C5_Witness ==
    /\ terminated = "stable"
    /\ request.world = LineWorld(LineLen)
    /\ LineLen >= 16
    /\ world[<<1, 0, 0>>].power = 15
    /\ world[<<15, 0, 0>>].power = 1
    /\ world[<<16, 0, 0>>].power = 0

(***************************************************************************)
(* C6  Lever to lamp: the call on Lever(on, east), Dust(0), Lamp(off) at   *)
(* x = 0, 1, 2 with a budget of 5 ticks and early_exit lists the Lamp with *)
(* on = true in the TickDiff of tick 1.                                    *)
(***************************************************************************)
C6_LampOnInTickOne ==
    (request = SimRequest(5, LeverLampWorld, TRUE) /\ pc = "done") =>
        BlockChange(<<2, 0, 0>>, Lamp(TRUE)) \in DiffEntries(diffs, 1)

(***************************************************************************)
(* C7  Torch inverter: a torch the current tick has evaluated is lit       *)
(* exactly when the block in front of it offered it no power in the        *)
(* pre-tick snapshot, and a lit torch that was offered power is listed     *)
(* unlit in the tick's changes; between ticks a lit torch that is offered  *)
(* power is in the dirty set, so the next tick puts it out; and the call   *)
(* on Lever(on, east) at x = 0 with Torch(lit, west) at x = 1 lists        *)
(* Torch{lit: false} in the TickDiff of tick 1.                            *)
(***************************************************************************)
\* the power the block at pos + facing offers toward the torch at pos in w
TorchOffered(w, pos) ==
    LET n == Shift(pos, w[pos].facing)
    IN  IF n \in DOMAIN w THEN output_towards(w[n], dir_from_to(n, pos)) ELSE 0

Torches == {p \in DOMAIN world : world[p].type = "torch"}

C7_TorchInverter ==
    /\ pc = "visit" =>
          \A p \in Torches \cap Visited :
              /\ world[p].lit = (TorchOffered(snapshot, p) = 0)
              /\ (snapshot[p].lit /\ TorchOffered(snapshot, p) > 0) =>
                    BlockChange(p, [snapshot[p] EXCEPT !.lit = FALSE])
                        \in Entries(changes)
    /\ pc = "loop" =>
          \A p \in Torches :
              (world[p].lit /\ TorchOffered(world, p) > 0) => p \in dirty
    /\ (request.world = TorchWorld /\ tick >= 1 /\ pc \in {"loop", "done"}) =>
          BlockChange(<<1, 0, 0>>, Torch(FALSE, "west"))
              \in DiffEntries(diffs, 1)

\* the torch scenario with the budget of 2 ticks has returned with the
\* unlit torch as the only change
C7_Witness ==
    /\ request = SimRequest(2, TorchWorld, TRUE)
    /\ pc = "done"
    /\ diffs = <<TickDiff(1, <<BlockChange(<<1, 0, 0>>,
                                          Torch(FALSE, "west"))>>)>>

(***************************************************************************)
(* C8  Repeater requires back input: a repeater the current tick has       *)
(* evaluated is powered only if the block directly behind it offered power *)
(* toward it in the pre-tick snapshot, and one it has not evaluated is as  *)
(* the snapshot had it; with the lever at the repeater's    *)
(* side (tests::repeater_requires_back_input) the repeater is never        *)
(* powered, the wire in front of it stays at 0 and no change list ever     *)
(* holds the Lamp with on = true, whatever the tick budget.                *)
(***************************************************************************)
\* the power the block behind the repeater at pos offers toward it in w
BackOffered(w, pos) ==
    LET n == Shift(pos, opposite(w[pos].facing))
    IN  IF n \in DOMAIN w THEN output_towards(w[n], dir_from_to(n, pos)) ELSE 0

Repeaters == {p \in DOMAIN world : world[p].type = "repeater"}

LampLit(c) == c.kind.type = "lamp" /\ c.kind.on

C8_RepeaterBackInput ==
    /\ pc = "visit" =>
          \A p \in Repeaters \cap Visited :
              world[p].powered => BackOffered(snapshot, p) > 0
    /\ pc = "visit" =>
          \A p \in Repeaters \ Visited : world[p] = snapshot[p]
    /\ request.world = SideLeverWorld =>
          /\ ~world[<<1, 0, 0>>].powered
          /\ world[<<2, 0, 0>>].power = 0
          /\ ~world[<<3, 0, 0>>].on
          /\ \A c \in Entries(changes) : ~LampLit(c)
          /\ \A i \in 1..Len(diffs) :
                \A c \in Entries(diffs[i].changes) : ~LampLit(c)

\* the side-lever world has run its whole budget of ticks without a change
C8_Witness ==
    /\ request = SimRequest(MaxTicks, SideLeverWorld, FALSE)
    /\ pc = "done"
    /\ tick = MaxTicks
    /\ diffs = <<>>

(***************************************************************************)
(* C9  Repeater gating, positive case: with Lever(on, east) behind         *)
(* Repeater(delay 1) and a Lamp directly in front of it, the repeater is   *)
(* listed powered in the TickDiff of tick 1 and of no other tick, the Lamp *)
(* is listed with on = true in the TickDiff of tick 2 and of no other      *)
(* tick, and the TickDiff of tick 2 holds it once two ticks have run.      *)
(***************************************************************************)
\* the ticks whose TickDiff lists the block at pos in a state that meets P
TicksListing(pos, P(_)) ==
    {diffs[i].tick : i \in {j \in 1..Len(diffs) :
        \E c \in Entries(diffs[j].changes) : c.pos = pos /\ P(c.kind)}}

IsPowered(kind) == kind.powered

IsOn(kind) == kind.on

C9_RepeaterGating ==
    request.world = BackLeverWorld =>
        LET c == TicksListing(<<1, 0, 0>>, IsPowered)
            l == TicksListing(<<2, 0, 0>>, IsOn)
        IN  /\ c \subseteq {1}
            /\ l \subseteq {t + 1 : t \in c}
            /\ (tick >= 1 /\ pc \in {"loop", "done"}) => c = {1}
            /\ (tick >= 2 /\ pc \in {"loop", "done"}) => l = {2}
            /\ \A e \in Entries(changes) : LampLit(e) => tick = 2

\* the call has returned Stable with the repeater powered at tick 1 and
\* the lamp lit at tick 2
C9_Witness ==
    /\ request.world = BackLeverWorld
    /\ terminated = "stable"
    /\ diffs = <<TickDiff(1, <<BlockChange(<<1, 0, 0>>,
                                  Repeater(1, 0, TRUE, "east"))>>),
                 TickDiff(2, <<BlockChange(<<2, 0, 0>>, Lamp(TRUE))>>)>>

(***************************************************************************)
(* C10  Idempotence at quiescence: when a call returned Stable at tick T,  *)
(* a second call on the same initial world with a budget of T + k ticks    *)
(* returns the same TickDiffs for the ticks 1..T and no TickDiff for a     *)
(* later tick.                                                             *)
(***************************************************************************)
UpToTick(d, t) == SelectSeq(d, LAMBDA x : x.tick <= t)

C10_Idempotence ==
    (/\ pc = "done"
     /\ prev # NoCall
     /\ prev.response.terminated = "stable"
     /\ request.ticks >= prev.tick)
        => /\ UpToTick(diffs, prev.tick) = prev.response.diffs
           /\ \A i \in 1..Len(diffs) : diffs[i].tick <= prev.tick

(***************************************************************************)
(* C11  Termination reason: the call returns Stable only with early_exit   *)
(* set, at a tick t in 1..ticks whose change list is empty while no Button *)
(* or Repeater has ticks_remaining > 0, and it returns at the first such   *)
(* tick (the loop never goes on past one); otherwise it returns            *)
(* MaxTicksReached after exactly `ticks` ticks.  With ticks = 0 the        *)
(* response holds no diffs and MaxTicksReached; with early_exit = false    *)
(* the call never returns Stable.                                          *)
(***************************************************************************)
\* the tick just simulated listed no change and left no countdown running
Quiescent ==
    /\ tick >= 1
    /\ changes = <<>>
    /\ \A p \in DOMAIN world :
          world[p].type \in {"button", "repeater"}
              => world[p].ticks_remaining = 0

C11_TerminationReason ==
    /\ terminated = "stable" <=>
          (pc = "done" /\ request.early_exit /\ Quiescent)
    /\ terminated = "stable" => tick <= request.ticks
    /\ terminated = "max_ticks_reached" <=>
          (pc = "done" /\ ~(request.early_exit /\ Quiescent))
    /\ terminated = "max_ticks_reached" => tick = request.ticks
    /\ (pc = "loop" /\ request.early_exit) => ~Quiescent
    /\ (pc = "done" /\ request.ticks = 0) =>
          (diffs = <<>> /\ terminated = "max_ticks_reached")
    /\ ~request.early_exit => terminated # "stable"

\* a call returns Stable with ticks of its budget unused, after a tick that
\* changed something
C11_Witness ==
    /\ pc = "done"
    /\ terminated = "stable"
    /\ tick < request.ticks
    /\ diffs # <<>>
    /\ prev = NoCall

(***************************************************************************)
(* C12  Malformed input: simulate never runs a tick on, and never returns  *)
(* a response for, a world that holds a Dust power or a Comparator output  *)
(* above 15 or a Repeater delay outside 1..4; such a request is rejected   *)
(* before the simulation begins.                                           *)
(***************************************************************************)
\* every ranged field of the world lies in the range the claim gives it
FieldsInRange(w) ==
    \A p \in DOMAIN w :
        /\ w[p].type = "dust" => w[p].power <= 15
        /\ w[p].type = "comparator" => w[p].output <= 15
        /\ w[p].type = "repeater" => w[p].delay \in 1..4

C12_MalformedRejected ==
    (tick >= 1 \/ pc = "done" \/ diffs # <<>>) => FieldsInRange(request.world)

(***************************************************************************)
(* C13  Structural frame: at every point of the call the world holds a     *)
(* block at exactly the positions of the initial world, each of the        *)
(* initial variant, with its initial facing and (Repeater) delay; every    *)
(* Lever is as it was placed; and every entry of every change list names   *)
(* an occupied position and holds a block of that position's variant,      *)
(* facing and delay, never a Lever.                                        *)
(***************************************************************************)
\* block b has the variant, the facing and the delay of the initial block a
SameFrame(a, b) ==
    /\ b.type = a.type
    /\ DOMAIN b = DOMAIN a
    /\ "facing" \in DOMAIN a => b.facing = a.facing
    /\ a.type = "repeater" => b.delay = a.delay
    /\ a.type = "lever" => b = a

\* every change entry recorded so far, of finished ticks and the current one
AllEntries ==
    Entries(changes) \cup UNION {Entries(diffs[i].changes) : i \in 1..Len(diffs)}

\* the entries of the change list c keep the position, variant and
\* structural fields of a block of the request, and none is a Lever
FramedEntries(c) ==
    \A e \in Entries(c) :
        /\ e.pos \in DOMAIN request.world
        /\ SameFrame(request.world[e.pos], e.kind)
        /\ e.kind.type # "lever"

\* the change list of the current tick is looked at in every state, the
\* diffs in the states that follow a push to them
C13_StructuralFrame ==
    /\ DOMAIN world = DOMAIN request.world
    /\ \A p \in DOMAIN request.world : SameFrame(request.world[p], world[p])
    /\ FramedEntries(changes)
    /\ pc # "visit" => \A i \in 1..Len(diffs) : FramedEntries(diffs[i].changes)

\* a call has returned on a world of a Lever, a Repeater and a third block,
\* all three positions but the Lever's listed in the diffs
C13_Witness ==
    /\ pc = "done"
    /\ prev = NoCall
    /\ DOMAIN request.world = Cells
    /\ request.world[<<0, 0, 0>>].type = "lever"
    /\ request.world[<<1, 0, 0>>].type = "repeater"
    /\ {c.pos : c \in AllEntries} = {<<1, 0, 0>>, <<2, 0, 0>>}

(***************************************************************************)
(* C14  Response well-formedness: every TickDiff has a non-empty change    *)
(* list and a tick in 1..ticks, the ticks of the diffs increase strictly,  *)
(* a tick that has ended has a TickDiff exactly when it changed something  *)
(* (and then the TickDiff holds that tick's change list), no change list   *)
(* names a position twice, every entry of the current tick equals the      *)
(* block the world holds at its position, and a step of the call only ever *)
(* appends to the diffs: a recorded TickDiff is never altered.             *)
(***************************************************************************)
\* no two entries of the change list c name the same position
DistinctPositions(c) ==
    \A i, j \in 1..Len(c) : c[i].pos = c[j].pos => i = j

\* a tick has ended and the next has not begun
TickEnded == tick >= 1 /\ pc \in {"loop", "done"}

WellFormed ==
    /\ \A i \in 1..Len(diffs) :
          /\ diffs[i].changes # <<>>
          /\ diffs[i].tick \in 1..request.ticks
          /\ diffs[i].tick <= tick
          /\ pc = "visit" => diffs[i].tick < tick
          /\ DistinctPositions(diffs[i].changes)
          /\ \A j \in 1..Len(diffs) : i < j => diffs[i].tick < diffs[j].tick
    /\ DistinctPositions(changes)
    /\ \A c \in Entries(changes) : world[c.pos] = c.kind
    /\ TickEnded =>
          IF changes # <<>>
          THEN diffs # <<>> /\ diffs[Len(diffs)] = TickDiff(tick, changes)
          ELSE \A i \in 1..Len(diffs) : diffs[i].tick # tick

\* diffs only grows, at its end
DiffsAppendOnly ==
    /\ Len(diffs') >= Len(diffs)
    /\ \A i \in 1..Len(diffs) : diffs'[i] = diffs[i]

C14_WellFormedResponse == []WellFormed /\ [][DiffsAppendOnly]_vars

\* a call has returned two TickDiffs, the first of them with two entries,
\* after a third tick that changed nothing and has no TickDiff
C14_Witness ==
    /\ pc = "done"
    /\ prev = NoCall
    /\ tick = Len(diffs) + 1
    /\ Len(diffs) = 2
    /\ Len(diffs[1].changes) = 2

(***************************************************************************)
(* C15  Connectivity table: for a block of any variant, state and facing   *)
(* at any position, the reply of connections_impl lists: for a Lever or a  *)
(* Button no input and the one output pos+facing; for a Repeater the one   *)
(* input pos+opposite(facing) and the one output pos+facing; for a Torch   *)
(* the one input pos+facing and as outputs the other five neighbours; for  *)
(* Dust the six neighbours as inputs and as outputs; for a Lamp, Piston or *)
(* Hopper the six neighbours as inputs and no output; for a Comparator the *)
(* six neighbours as inputs.  And a direction toward which some state of   *)
(* the block (same variant, same facing) offers power leads to one of its  *)
(* output positions.                                                       *)
(***************************************************************************)
\* the six unit neighbours of pos
Six(pos) ==
    {<<pos[1] + 1, pos[2], pos[3]>>, <<pos[1] - 1, pos[2], pos[3]>>,
     <<pos[1], pos[2] + 1, pos[3]>>, <<pos[1], pos[2] - 1, pos[3]>>,
     <<pos[1], pos[2], pos[3] + 1>>, <<pos[1], pos[2], pos[3] - 1>>}

\* the states a block of b's variant and facing can be in
StatesOf(b) ==
    {k \in BlockKinds :
        /\ k.type = b.type
        /\ "facing" \in DOMAIN b => k.facing = b.facing}

\* the list s holds exactly the positions of S, each once
Lists(s, S) == Range(s) = S /\ Len(s) = Cardinality(S)

C15_ConnectivityTable ==
    connections.reply # <<>> =>
        LET b == connections.block
            p == connections.pos
            ins == connections.reply[1].inputs
            outs == connections.reply[1].outputs
        IN  /\ b.type \in {"lever", "button"} =>
                  ins = <<>> /\ outs = <<Shift(p, b.facing)>>
            /\ b.type = "repeater" =>
                  /\ ins = <<Shift(p, opposite(b.facing))>>
                  /\ outs = <<Shift(p, b.facing)>>
            /\ b.type = "torch" =>
                  /\ ins = <<Shift(p, b.facing)>>
                  /\ Lists(outs, Six(p) \ {Shift(p, b.facing)})
                  /\ Len(outs) = 5
            /\ b.type = "dust" => Lists(ins, Six(p)) /\ Lists(outs, Six(p))
            /\ b.type \in {"lamp", "piston", "hopper"} =>
                  Lists(ins, Six(p)) /\ outs = <<>>
            /\ b.type = "comparator" => Lists(ins, Six(p))
            /\ \A d \in Direction :
                  (\E k \in StatesOf(b) : output_towards(k, d) > 0)
                      => Shift(p, d) \in Range(outs)

\* the reply for a Torch that faces down, away from the origin
C15_Witness ==
    /\ connections.reply # <<>>
    /\ connections.block.type = "torch"
    /\ connections.block.facing = "down"
    /\ connections.pos = <<-MaxCoord, MaxCoord, -MaxCoord>>
    /\ Len(connections.reply[1].outputs) = 5

(***************************************************************************)
(* C16  No adjacency violation: whenever a block is about to be evaluated, *)
(* every neighbour its arm hands to dir_from_to is one dir_from_to finds a *)
(* direction for, and the call never panics: simulate returns a response   *)
(* for every request the decoder accepts.                                  *)
(***************************************************************************)
C16_NoPanic ==
    /\ pc = "visit" =>
          \A p \in todo : ~Panics(world[p], p, snapshot)
    /\ pc # "panicked"

(***************************************************************************)
(* C17  Snapshot isolation: at every point of a tick, in whatever order    *)
(* the dirty positions are visited, each block already visited holds what  *)
(* its rule yields from its pre-tick state and the pre-tick snapshot, each *)
(* block not yet visited holds its pre-tick state, the change list holds   *)
(* exactly the visited blocks whose rule reports a change, and the next    *)
(* dirty set is exactly what those rules mark; so the world, the set of    *)
(* changes and the next dirty set after the tick do not depend on the      *)
(* visiting order.                                                         *)
(***************************************************************************)
\* what the rule of the block at p yields from the pre-tick snapshot alone
FromSnapshot(p) == Rule(snapshot[p], p, snapshot)

\* the positions the outcome r of the block at p puts into the next dirty set
Marks(p, r) ==
    (IF r.self_dirty THEN {p} ELSE {})
    \cup (IF r.mark_out THEN mark_outputs(r.block, p) ELSE {})

\* for every visited position: the block, the change flag and the marks its
\* rule yields from the snapshot
VisitedFromSnapshot ==
    {LET r == FromSnapshot(p)
     IN  [pos |-> p, block |-> r.block, changed |-> r.changed,
          marks |-> Marks(p, r)] : p \in Visited}

SnapshotIsolated ==
    pc = "visit" =>
        LET V == VisitedFromSnapshot
        IN  /\ DOMAIN world = DOMAIN snapshot
            /\ \A v \in V : world[v.pos] = v.block
            /\ \A p \in DOMAIN world \ Visited : world[p] = snapshot[p]
            /\ Entries(changes) =
                  {BlockChange(v.pos, v.block) : v \in {u \in V : u.changed}}
            /\ next_dirty = UNION {v.marks : v \in V}

C17_SnapshotIsolation == []SnapshotIsolated

\* a wire has been visited after the wire next to it, which it reads, was
\* changed in the same tick
C17_Witness ==
    /\ TickDone
    /\ Len(changes) >= 2
    /\ changes[1].kind.type = "dust"
    /\ changes[2].kind.type = "dust"
    /\ changes[2].pos \in Range(Neighbours(changes[1].pos))
    /\ changes[2].kind.power > 0

(***************************************************************************)
(* C18  Incremental propagation is equivalent to a full rescan: on every   *)
(* tick, the rule of every block that is not in the dirty set, applied to  *)
(* the pre-tick snapshot, would leave the block as it is, report no change *)
(* and mark nothing; so evaluating the dirty set alone yields the world    *)
(* and the changes that evaluating every block would.                      *)
(***************************************************************************)
\* the blocks the tick does not evaluate
Clean == DOMAIN snapshot \ dirty

\* the snapshot and the dirty set stay as they are while a tick visits, so
\* they are looked at in the state that opens the tick
C18_DirtySetSuffices ==
    (pc = "visit" /\ Visited = {}) =>
        \A p \in Clean :
            LET r == FromSnapshot(p)
            IN  /\ r.block = snapshot[p]
                /\ ~r.changed
                /\ Marks(p, r) = {}

\* a tick after the first has changed a block while another was left out
\* of the dirty set
C18_Witness ==
    /\ TickDone
    /\ tick >= 2
    /\ changes # <<>>
    /\ Clean # {}

(***************************************************************************)
(* C19  Repeater delay: a Repeater of delay d >= 1 that a tick evaluates   *)
(* with power offered at its back, unpowered, starts from d when no        *)
(* countdown was running and counts one down in that same tick, is powered *)
(* after the tick exactly when the count has reached 0, is listed in the   *)
(* change list when its count is still running or it became powered, and   *)
(* is in the next dirty set while the count is running.  With an on Lever  *)
(* behind a Repeater(delay d, no countdown, unpowered) from the start      *)
(* (s = 1): after tick t < d it is unpowered with d - t left, listed in    *)
(* the TickDiff of t and dirty for tick t + 1; it is powered from tick d = *)
(* s + d - 1 on and never before; and the cell in front of it is marked    *)
(* dirty at tick d and at no other tick.                                   *)
(***************************************************************************)
\* the request puts an on Lever behind an idle Repeater at the middle cell
LeverBehindRepeater ==
    /\ <<0, 0, 0>> \in DOMAIN request.world
    /\ <<1, 0, 0>> \in DOMAIN request.world
    /\ request.world[<<0, 0, 0>>] = Lever(TRUE, "east")
    /\ request.world[<<1, 0, 0>>].type = "repeater"
    /\ request.world[<<1, 0, 0>>].ticks_remaining = 0
    /\ ~request.world[<<1, 0, 0>>].powered

\* the change list c has an entry for position p
ListsPos(c, p) == \E e \in Entries(c) : e.pos = p

C19_RepeaterDelay ==
    /\ pc = "visit" =>
          \A p \in Repeaters \cap Visited :
              LET a == snapshot[p]
                  b == world[p]
                  from == IF a.ticks_remaining = 0 THEN a.delay
                          ELSE a.ticks_remaining
              IN  (BackOffered(snapshot, p) > 0 /\ ~a.powered /\ a.delay >= 1)
                  => /\ b.ticks_remaining = from - 1
                     /\ b.powered <=> (from = 1)
                     /\ ListsPos(changes, p)
                     /\ b.ticks_remaining > 0 => p \in next_dirty
                     /\ b.powered => Shift(p, b.facing) \in next_dirty
    /\ LeverBehindRepeater =>
          LET p == <<1, 0, 0>>
              d == request.world[p].delay
          IN  /\ TickDone =>
                    /\ world[p].ticks_remaining = Max(d - tick, 0)
                    /\ world[p].powered <=> (tick >= d)
                    /\ ListsPos(changes, p) <=> (tick <= d)
                    /\ tick < d => p \in next_dirty
                    /\ Shift(p, "east") \in next_dirty <=> (tick = d)
              /\ world[p].powered => tick >= d
              /\ \A i \in 1..Len(diffs) :
                    ListsPos(diffs[i].changes, p) <=> (diffs[i].tick <= d)

\* a Repeater of the longest delay has just become powered, at the tick
\* equal to its delay, after being listed on every tick before
C19_Witness ==
    /\ LeverBehindRepeater
    /\ request.world[<<1, 0, 0>>].delay = MaxDelay
    /\ TickDone
    /\ tick = MaxDelay
    /\ world[<<1, 0, 0>>].powered
    /\ Len(diffs) = MaxDelay - 1

(***************************************************************************)
(* C20  Repeater snapping: a Repeater whose back neighbour offered power   *)
(* before a tick and offers none after it is in the dirty set of the next  *)
(* tick; and a Repeater that a tick evaluates with no power offered at its *)
(* back ends the tick unpowered with no countdown, whatever its countdown  *)
(* or powered state was, so that nothing of an interrupted countdown is    *)
(* left: it is in the state of a Repeater that was never fed.              *)
(***************************************************************************)
C20_RepeaterSnapping ==
    /\ pc = "visit" =>
          \A p \in Repeaters \cap Visited :
              BackOffered(snapshot, p) = 0 =>
                  world[p] = [snapshot[p] EXCEPT !.powered = FALSE,
                                                 !.ticks_remaining = 0]
    /\ TickDone =>
          \A p \in Repeaters :
              (BackOffered(snapshot, p) > 0 /\ BackOffered(world, p) = 0)
                  => p \in next_dirty
    /\ (pc = "loop" /\ tick >= 1) =>
          \A p \in Repeaters :
              (BackOffered(snapshot, p) > 0 /\ BackOffered(world, p) = 0)
                  => p \in dirty

\* a Button behind a Repeater ran out on the tick before, in the middle of
\* the Repeater's countdown, and this tick has reset the Repeater
C20_Witness ==
    /\ TickDone
    /\ tick >= 2
    /\ <<1, 0, 0>> \in Repeaters \cap Visited
    /\ BackOffered(snapshot, <<1, 0, 0>>) = 0
    /\ snapshot[<<1, 0, 0>>].ticks_remaining > 0
    /\ ~snapshot[<<1, 0, 0>>].powered
    /\ world[<<1, 0, 0>>].ticks_remaining = 0
    /\ ~world[<<1, 0, 0>>].powered

(***************************************************************************)
(* C21  Button decay: a Button that starts with ticks_remaining = n > 0    *)
(* loses exactly 1 on each of the ticks 1..n the budget allows, is listed  *)
(* in the change list of each of those ticks, is in the dirty set of every *)
(* tick that begins with its countdown running, offers 15 toward its       *)
(* facing in every pre-tick snapshot in which the countdown runs, puts the *)
(* cell in front of it into the next dirty set at tick n and at no other   *)
(* tick, and is not modified after tick n; a Button that starts with       *)
(* ticks_remaining = 0 is never changed.                                   *)
(***************************************************************************)
\* the positions at which the request places a Button
Buttons == {p \in DOMAIN request.world : request.world[p].type = "button"}

\* the number of ticks that have evaluated position p, when p is evaluated
\* on every tick
Evaluated(p) == IF p \in todo THEN tick - 1 ELSE tick

\* the tick k has run to its end
Completed(k) == k < tick \/ (k = tick /\ pc \in {"loop", "done"})

C21_State ==
    \A p \in Buttons :
        LET n == request.world[p].ticks_remaining
            f == request.world[p].facing
        IN  /\ world[p] = Button(Max(n - Evaluated(p), 0), f)
            /\ pc = "visit" =>
                  /\ snapshot[p] = Button(Max(n - (tick - 1), 0), f)
                  /\ snapshot[p].ticks_remaining > 0 =>
                        /\ p \in dirty
                        /\ output_towards(snapshot[p], f) = 15
                        /\ output_towards(snapshot[p],
                                          dir_from_to(p, Shift(p, f))) = 15
                  /\ ListsPos(changes, p) <=> (p \notin todo /\ tick <= n)
                  /\ \A e \in Entries(changes) :
                        e.pos = p => e.kind = Button(n - tick, f)
            /\ (pc = "loop" /\ world[p].ticks_remaining > 0) => p \in dirty
            /\ TickDone =>
                  /\ world[p].ticks_remaining > 0 => p \in next_dirty
                  /\ (n > 0 /\ tick = n) => Shift(p, f) \in next_dirty
            /\ \A i \in 1..Len(diffs) :
                  /\ ListsPos(diffs[i].changes, p) <=> (diffs[i].tick <= n)
                  /\ \A e \in Entries(diffs[i].changes) :
                        e.pos = p => e.kind = Button(n - diffs[i].tick, f)
            /\ \A k \in 1..n :
                  Completed(k) => \E i \in 1..Len(diffs) : diffs[i].tick = k

\* what the iteration that evaluates the Button at p adds to next_dirty
C21_Step ==
    \A p \in Buttons :
        (pc = "visit" /\ pc' = "visit" /\ p \in todo /\ p \notin todo') =>
            LET n == request.world[p].ticks_remaining
                f == request.world[p].facing
            IN  next_dirty' =
                    next_dirty
                    \cup (IF tick < n THEN {p} ELSE {})
                    \cup (IF n > 0 /\ tick = n THEN {Shift(p, f)} ELSE {})

C21_ButtonDecay == []C21_State /\ [][C21_Step]_vars

\* a Button of the longest countdown has just run out, at the tick equal to
\* that countdown, after being listed on every tick before, and has put the
\* cell in front of it into the next dirty set
C21_Witness ==
    /\ TickDone
    /\ tick = MaxTimer
    /\ <<0, 0, 0>> \in Buttons
    /\ request.world[<<0, 0, 0>>] = Button(MaxTimer, "east")
    /\ world[<<0, 0, 0>>].ticks_remaining = 0
    /\ ListsPos(changes, <<0, 0, 0>>)
    /\ Len(diffs) = MaxTimer - 1
    /\ <<1, 0, 0>> \in next_dirty
    /\ <<0, 0, 0>> \notin next_dirty

(***************************************************************************)
(* C22  Timer scheduling: at the end of every tick every Button and every  *)
(* Repeater whose ticks_remaining is above 0 is in the dirty set of the    *)
(* next tick and is listed in the change list of the tick; so a tick with  *)
(* an empty change list leaves no countdown running, the branch that goes  *)
(* on because a countdown runs is never taken, and with early_exit set the *)
(* call returns Stable at the first tick whose change list is empty.       *)
(***************************************************************************)
\* the positions of w that hold a Button or a Repeater whose countdown runs
Running(w) ==
    {p \in DOMAIN w :
        w[p].type \in {"button", "repeater"} /\ w[p].ticks_remaining > 0}

C22_TimerScheduling ==
    /\ TickDone =>
          /\ \A p \in Running(world) :
                /\ p \in next_dirty
                /\ BlockChange(p, world[p]) \in Entries(changes)
          /\ changes = <<>> => ~timers_active(world)
    /\ (pc = "loop" /\ tick >= 1) =>
          \A p \in Running(world) :
              /\ p \in dirty
              /\ BlockChange(p, world[p]) \in DiffEntries(diffs, tick)
    /\ request.early_exit =>
          /\ \A i \in 1..Len(diffs) : diffs[i].tick = i
          /\ pc = "loop" => Len(diffs) = tick
          /\ pc = "visit" => Len(diffs) = tick - 1
          /\ terminated = "stable" => (Len(diffs) = tick - 1 /\ changes = <<>>)
          /\ terminated = "max_ticks_reached" => Len(diffs) = tick

\* with early_exit set, a tick after the first has ended with the countdown
\* of a Repeater as the only entry of its change list
C22_Witness ==
    /\ TickDone
    /\ request.early_exit
    /\ tick >= 2
    /\ Len(changes) = 1
    /\ \E p \in Running(world) :
          /\ world[p].type = "repeater"
          /\ changes[1] = BlockChange(p, world[p])
          /\ p \in next_dirty

(***************************************************************************)
(* C23  Stable means quiescent: whenever simulate returns Stable, the      *)
(* dirty set computed for the following tick is empty and the final world  *)
(* is a fixed point of the whole rule set: the rule of every block of the  *)
(* world, applied against the final world, changes no field of the block.  *)
(***************************************************************************)
\* the rule of every block of w, applied against w, leaves the block as it is
FixedPoint(w) ==
    \A p \in DOMAIN w :
        /\ ~Panics(w[p], p, w)
        /\ Rule(w[p], p, w).block = w[p]

C23_StableIsQuiescent ==
    terminated = "stable" =>
        /\ next_dirty = {}
        /\ FixedPoint(world)

\* a call has returned Stable with a final world of three blocks that
\* differs from the world of the request
C23_Witness ==
    /\ pc = "done"
    /\ terminated = "stable"
    /\ tick >= 3
    /\ Cardinality(DOMAIN world) = 3
    /\ \A p \in DOMAIN world : world[p] # request.world[p]

====
